---- MODULE Spec2Model ----
(***************************************************************************)
(* Load-point controller of evcc (core/loadpoint.go): the cached charger   *)
(* status with its bus events, the PV current-setpoint algorithm with its  *)
(* debounce timer, phase detection and the per-tick Update cycle.          *)
(*                                                                         *)
(* Time is the mockable clock's reading, an integer; the zero time.Time{}  *)
(* is 0 and every clock reading is >= 1.  Power is in W, current in A.     *)
(***************************************************************************)
EXTENDS Integers, Sequences, FiniteSets, TLC

\* ---------------------------------------------------------------- bounds
\* last clock reading at which a tick is explored
MaxTime == 3

\* ------------------------------------------------------- program constants
MinCurrent == 6
MaxCurrent == 16
Sensitivity == 10
minActiveCurrent == 1
\* nominal line voltage (package constant defined outside loadpoint.go)
Voltage == 230

evChargeStart == "start"
evChargeStop == "stop"
evChargeCurrent == "current"
evChargePower == "power"
evVehicleConnect == "connect"
evVehicleDisconnect == "disconnect"

StatusNone == "None"
StatusA == "A"
StatusB == "B"
StatusC == "C"

ModeOff == "Off"
ModeNow == "Now"
ModeMinPV == "MinPV"
ModePV == "PV"

\* ------------------------------------------------------------ input domains
Modes == {ModeOff, ModeNow, ModeMinPV, ModePV}
\* site power samples: multiples of 6 * Voltage, so that the current they
\* convert to is exact for 1, 2 and 3 phases
SitePowers == {-2760, -1380, 1380, 2760}
\* the sample a load point with a real charge meter is explored with: a
\* surplus of 4 A on three phases, 12 A on one
MeterSitePowers == {-2760}
\* outcomes of the retried status read: a status, or every attempt failed
StatusReads == {"err", StatusA, StatusB, StatusC}
\* configurations of the hysteresis (ThresholdConfig: Delay, Threshold)
\* the first is the default of NewLoadPoint
Configs == {[Disable |-> [Delay |-> 0, Threshold |-> 0],
             Enable |-> [Delay |-> 0, Threshold |-> 0]],
            [Disable |-> [Delay |-> 2, Threshold |-> 2760],
             Enable |-> [Delay |-> 2, Threshold |-> -1380]]}
\* the configuration a load point with a real charge meter is explored
\* with: the default of NewLoadPoint
MeterConfigs == {[Disable |-> [Delay |-> 0, Threshold |-> 0],
                  Enable |-> [Delay |-> 0, Threshold |-> 0]]}
\* configured phase counts
PhaseCounts == {1}
\* configured phase counts of the load points with a real charge meter
MeterPhaseCounts == {3}
\* what Ramp's actuation meets: it is applied, or the guard duration
\* suppresses an enable/disable toggle
RampOutcomes == {"ok", "guard"}
\* power readings of a real charge meter
MeterPowers == {1380}
\* outcomes of the retried meter read: a reading, or every attempt failed
MeterReads == {[ok |-> FALSE, value |-> 0]} \cup {[ok |-> TRUE, value |-> p] : p \in MeterPowers}
\* per-phase currents (i1, i2, i3) a meter with the MeterCurrent capability
\* reports: no, one, two or three phases carrying minActiveCurrent
PhaseCurrents == {<<0, 0, 0>>, <<1, 0, 0>>, <<1, 1, 0>>, <<1, 1, 1>>}
\* outcomes of phaseMeter.Currents(): three currents, or an error (also the
\* case of a meter without the capability)
PhaseReads == {[ok |-> FALSE, i |-> <<0, 0, 0>>]}
              \cup {[ok |-> TRUE, i |-> c] : c \in PhaseCurrents}
NoPhaseRead == [ok |-> FALSE, i |-> <<0, 0, 0>>]

VARIABLES
    prepared,       \* Prepare has run (pushChan/uiChan set, handlers subscribed)
    subs,           \* bus: event name -> sequence of subscribed handlers
    Phases,         \* lp.Phases
    Enable,         \* lp.Enable
    Disable,        \* lp.Disable
    status,         \* lp.status
    charging,       \* lp.charging
    connectedTime,  \* lp.connectedTime
    pvTimer,        \* lp.pvTimer, 0 is the zero time
    fakeMeter,      \* lp.chargeMeter is the synthetic wrapper.ChargeMeter
    meterPower,     \* power held by the synthetic charge meter
    chargePower,    \* lp.chargePower
    enabled,        \* handler.Enabled()
    handlerTarget,  \* handler.TargetCurrent()
    now,            \* clock reading at the last tick
    \* observations of the last tick
    prevStatus,     \* lp.status when the tick began
    read,           \* outcome of the tick's status read ("none" before any tick)
    mode,           \* the tick's mode argument
    sitePower,      \* the tick's sitePower argument
    bus,            \* bus events published in the tick, in order
    pushed,         \* notifications sent on pushChan in the tick, in order
    mc,             \* the tick's maxCurrent call
    ramp,           \* the tick's Ramp call
    det,            \* the tick's detectPhases call and what the meter reported
    steps,          \* what the tick did, in order: reads, bus events, uiChan publishes, calls
    \* history of the ticks, kept to state the dwell of the hysteresis
    aboveSince,     \* first tick of the current run of ticks with sitePower >= Disable.Threshold, 0 if none
    disSince,       \* first tick of the current run of disable-sequence ticks at or above the threshold, 0 if none
    seqDrop,        \* the current run of disable-sequence ticks holds a tick below the threshold
    condSince       \* first tick of the current run of ticks of a disabled, connected charger in PV mode with the enable condition, 0 if none

vars == <<prepared, subs, Phases, Enable, Disable, status, charging, connectedTime,
          pvTimer, fakeMeter, meterPower, chargePower, enabled, handlerTarget, now,
          prevStatus, read, mode, sitePower, bus, pushed, mc, ramp, det, steps,
          aboveSince, disSince, seqDrop, condSince>>

\* ------------------------------------------------------------- helpers
min(a, b) == IF a < b THEN a ELSE b

clamp(v, lo, hi) == IF v < lo THEN lo ELSE IF v > hi THEN hi ELSE v

\* integer division rounding to nearest, halves away from zero (d > 0)
RoundDiv(n, d) == IF n >= 0 THEN (2 * n + d) \div (2 * d)
                  ELSE -((2 * (-n) + d) \div (2 * d))

\* round(power / (phases * Voltage))
powerToCurrent(power, phases) == RoundDiv(power, phases * Voltage)

\* one entry of the record of a tick: kind k ("read", "bus", "ui", "call"),
\* name n, and the number v it carries (0 when it carries none)
Step(k, n, v) == [k |-> k, n |-> n, v |-> v]

Bit(b) == IF b THEN 1 ELSE 0

\* lp.connected()
connected(st) == st = StatusB \/ st = StatusC

\* --------------------------------------------------------- event bus
\* subscriptions made by configureChargerType when the charger is no meter
\* and no charge meter is configured
FakeMeterSubs == [e \in {evChargeCurrent, evChargeStop} |->
                    IF e = evChargeCurrent THEN <<"evChargeCurrentHandler">>
                    ELSE <<"chargeMeter.SetPower(0)">>]

Events == {evChargeStart, evChargeStop, evChargeCurrent, evChargePower,
           evVehicleConnect, evVehicleDisconnect}

\* the bus after construction
InitSubs(fake) == [e \in Events |->
                     IF fake /\ e \in DOMAIN FakeMeterSubs THEN FakeMeterSubs[e] ELSE <<>>]

\* subscriptions added by Prepare
PrepareSubs(sb) == [sb EXCEPT ![evChargeStart] = Append(@, "evChargeStartHandler"),
                              ![evChargeStop] = Append(@, "evChargeStopHandler")]

\* variant: the power is forced to zero only for a disabled charger
fakeMeterPowerEnabledOnly(current, en, st, P) ==
    IF ~en THEN 0 ELSE current * P * Voltage

\* the power evChargeCurrentHandler sets on the synthetic meter
fakeMeterPower(current, en, st, P) ==
    IF ~en \/ st # StatusC THEN 0 ELSE current * P * Voltage

\* publishChargeProgress
progressSteps == <<Step("ui", "chargedEnergy", 0), Step("ui", "chargeDuration", 0)>>

\* one subscriber called with the published argument; S is the state the
\* handlers write, ctx the state they read
Handle(h, arg, S, ctx) ==
    CASE h = "evChargeCurrentHandler" ->
            [S EXCEPT !.meterPower = fakeMeterPower(arg, ctx.enabled, ctx.status, ctx.Phases),
                      !.steps = Append(@, Step("ui", "chargeCurrent", arg))]
      [] h = "chargeMeter.SetPower(0)" -> [S EXCEPT !.meterPower = 0]
      [] h = "evChargeStartHandler" -> [S EXCEPT !.pushed = Append(@, evChargeStart)]
      [] h = "evChargeStopHandler" ->
            [S EXCEPT !.steps = @ \o progressSteps, !.pushed = Append(@, evChargeStop)]
      [] h = "evVehicleConnectHandler" ->
            [S EXCEPT !.steps = Append(@, Step("ui", "connectedDuration", ctx.now - S.connectedTime)),
                      !.pushed = Append(@, evVehicleConnect)]
      [] h = "evVehicleDisconnectHandler" ->
            [S EXCEPT !.connectedTime = ctx.now, !.pushed = Append(@, evVehicleDisconnect)]
      [] OTHER -> S

RECURSIVE Dispatch(_, _, _, _)
Dispatch(hs, arg, S, ctx) ==
    IF hs = <<>> THEN S
    ELSE Dispatch(Tail(hs), arg, Handle(Head(hs), arg, S, ctx), ctx)

\* bus.Publish of each event of evs in turn: every subscriber runs in line
RECURSIVE Publish(_, _, _, _, _)
Publish(evs, arg, S, ctx, sb) ==
    IF evs = <<>> THEN S
    ELSE LET ev == Head(evs)
             v == IF ev \in {evChargeCurrent, evChargePower} THEN arg ELSE 0
             S1 == [S EXCEPT !.steps = Append(@, Step("bus", ev, v))]
         IN  Publish(Tail(evs), arg, Dispatch(sb[ev], arg, S1, ctx), ctx, sb)

\* ------------------------------------------------- updateChargeStatus
\* vehicle events of a status change
vehicleEvents(prev, st) ==
    (IF prev = StatusA THEN <<evVehicleConnect>> ELSE <<>>)
    \o (IF st = StatusA THEN <<evVehicleDisconnect>> ELSE <<>>)

\* variant: any connected status counts as charging
chargingOfConnected(st) == st = StatusB \/ st = StatusC

\* lp.charging after a status change
chargingOf(st) == st = StatusC

\* variant: the stop event is published on every change to a non-C status
stopNeverOmitted(prev) == FALSE

\* the initial stop event is omitted
stopOmitted(prev) == prev = StatusNone

\* charging-cycle events of a status change
cycleEvents(prev, st) ==
    IF chargingOf(st) THEN <<evChargeStart>>
    ELSE IF ~stopOmitted(prev) THEN <<evChargeStop>> ELSE <<>>

\* all bus events of a status change, in order
statusEvents(prev, st) ==
    vehicleEvents(prev, st) \o <<evChargeCurrent>> \o cycleEvents(prev, st)

\* --------------------------------------------------------- detectPhases
RECURSIVE activePhases(_)
activePhases(is) ==
    IF is = <<>> THEN 0
    ELSE (IF Head(is) >= minActiveCurrent THEN 1 ELSE 0) + activePhases(Tail(is))

\* variant: the detected count is taken as it is
detectPhasesDetected(pr, P) ==
    IF pr.ok /\ activePhases(pr.i) > 0 THEN activePhases(pr.i) ELSE P

\* variant: a count of zero is taken too
detectPhasesUnguarded(pr, P) ==
    IF pr.ok THEN min(activePhases(pr.i), P) ELSE P

\* lp.Phases after detectPhases, pr being the outcome of phaseMeter.Currents()
detectPhases(pr, P) ==
    IF pr.ok /\ activePhases(pr.i) > 0 THEN min(activePhases(pr.i), P) ELSE P

\* what detectPhases does: the read, and the publication of a positive count
detectSteps(pr, P) ==
    <<Step("call", "detectPhases", Bit(pr.ok))>>
    \o (IF pr.ok /\ activePhases(pr.i) > 0
        THEN <<Step("ui", "activePhases", detectPhases(pr, P))>> ELSE <<>>)

\* ---------------------------------------------------- updateChargeMeter
\* variant: the value returned along with the error is stored
meterValueUnchecked(mr, cp) == mr.value

\* lp.chargePower after the retried meter read
meterValue(mr, cp) == IF mr.ok THEN mr.value ELSE cp

\* what updateChargeMeter does: the read, and the publication of a reading
meterSteps(mr) ==
    <<Step("read", "chargeMeter", Bit(mr.ok))>>
    \o (IF mr.ok THEN <<Step("ui", "chargePower", mr.value)>> ELSE <<>>)

\* publishSoC, which branches on lp.connected()
socSteps(st) == <<Step("call", "publishSoC", Bit(connected(st)))>>

\* ----------------------------------------------------------- maxCurrent
\* target charge current from delta power and actual current
targetCurrentOf(st, hT, sp, P) ==
    clamp((IF st # StatusC THEN 0 ELSE hT) + powerToCurrent(-sp, P), 0, MaxCurrent)

\* variant: the floor is applied in the wrong mode
minPVFloorInPV(m, target) == m = ModePV /\ target < MinCurrent

\* in MinPV mode return at least MinCurrent
minPVFloor(m, target) == m = ModeMinPV /\ target < MinCurrent

\* if lp.pvTimer.IsZero() { lp.pvTimer = lp.clock.Now() }
startTimer(timer, t) == IF timer = 0 THEN t ELSE timer

\* variant: the delay must be exceeded, not reached
elapsedStrictly(t, timer, delay) == t - timer > delay

\* lp.clock.Since(lp.pvTimer) >= delay
elapsed(t, timer, delay) == t - timer >= delay

\* the else branches of both sequences: "reset timer"
resetTimer(t) == t

\* condition kicking off the enable sequence
enableCondition(target, sp, En) ==
    target >= MinCurrent \/ (En.Threshold # 0 /\ sp <= En.Threshold)

\* maxCurrent(mode, sitePower) at clock reading t: the current it returns,
\* lp.pvTimer after it, and the targetCurrent and enabled it worked with
maxCurrent(m, sp, st, en, hT, P, timer, t, Dis, En) ==
    LET target == targetCurrentOf(st, hT, sp, P)
        Res(r, tm) == [called |-> TRUE, ret |-> r, pvTimer |-> tm,
                       target |-> target, enabled |-> en]
    IN  IF minPVFloor(m, target) THEN Res(MinCurrent, timer)
        ELSE IF m = ModePV /\ st # StatusC
             THEN Res(IF target < MinCurrent THEN 0 ELSE MinCurrent, 0)
        ELSE IF m = ModePV /\ en /\ target < MinCurrent
             THEN IF sp >= Dis.Threshold
                  THEN LET tm == startTimer(timer, t)
                       IN  Res(IF elapsed(t, tm, Dis.Delay) THEN 0 ELSE MinCurrent, tm)
                  ELSE Res(MinCurrent, resetTimer(t))
        ELSE IF m = ModePV /\ ~en
             THEN IF enableCondition(target, sp, En)
                  THEN LET tm == startTimer(timer, t)
                       IN  Res(IF elapsed(t, tm, En.Delay) THEN MinCurrent ELSE 0, tm)
                  ELSE Res(0, resetTimer(t))
        ELSE Res(target, 0)

\* ------------------------------------------------------ charger handler
\* one step of the commanded current toward the wanted one, at most
\* Sensitivity wide
rampStep(hT, current) == hT + clamp(current - hT, -Sensitivity, Sensitivity)

\* handler.Ramp(current, force): enabled and target current after it
Ramp(current, force, out, en, hT) ==
    LET same == [enabled |-> en, target |-> hT]
        toggle == force \/ out = "ok"
    IN  IF current = 0
             THEN IF en /\ toggle THEN [enabled |-> FALSE, target |-> hT] ELSE same
        ELSE IF ~en
             THEN IF toggle THEN [enabled |-> TRUE, target |-> rampStep(hT, current)] ELSE same
        ELSE [enabled |-> TRUE, target |-> rampStep(hT, current)]

\* variant: the current of the PV modes is passed on as computed
rampCallUnclamped(m, st, ret) ==
    CASE m = ModeOff -> [called |-> TRUE, current |-> 0, force |-> TRUE]
      [] m = ModeNow -> [called |-> TRUE, force |-> TRUE,
                         current |-> IF connected(st) THEN MaxCurrent ELSE MinCurrent]
      [] OTHER -> [called |-> TRUE, force |-> FALSE, current |-> ret]

\* variant: mode Now always asks for MaxCurrent
rampCallNowMax(m, st, ret) ==
    CASE m = ModeOff -> [called |-> TRUE, current |-> 0, force |-> TRUE]
      [] m = ModeNow -> [called |-> TRUE, force |-> TRUE, current |-> MaxCurrent]
      [] OTHER -> [called |-> TRUE, force |-> FALSE,
                   current |-> IF ~connected(st) THEN min(MinCurrent, ret) ELSE ret]

\* the Ramp call of the mode dispatch
rampCall(m, st, ret) ==
    CASE m = ModeOff -> [called |-> TRUE, current |-> 0, force |-> TRUE]
      [] m = ModeNow -> [called |-> TRUE, force |-> TRUE,
                         current |-> IF connected(st) THEN MaxCurrent ELSE MinCurrent]
      [] OTHER -> [called |-> TRUE, force |-> FALSE,
                   current |-> IF ~connected(st) THEN min(MinCurrent, ret) ELSE ret]

NoCall == [called |-> FALSE]

\* variant: the tick goes on after a failed status read
abortNever(failed) == FALSE

\* Update returns when every attempt of the status read failed
abortOnError(failed) == failed

\* variant: the charger is synced whatever the status
dispatchStepsSyncAlways(st, chg, pr, P, rc) ==
    <<Step("ui", "connected", Bit(connected(st))), Step("ui", "charging", Bit(chg))>>
    \o <<Step("call", "SyncEnabled", 0)>>
    \o (IF chg THEN detectSteps(pr, P) ELSE <<>>)
    \o <<Step("call", "Ramp", rc.current)>>

\* what Update does after a successful status read: st and chg are the
\* status and charging flag after the read, P the phases before detection
dispatchSteps(st, chg, pr, P, rc) ==
    <<Step("ui", "connected", Bit(connected(st))), Step("ui", "charging", Bit(chg))>>
    \o (IF st # StatusA THEN <<Step("call", "SyncEnabled", 0)>> ELSE <<>>)
    \o (IF chg THEN detectSteps(pr, P) ELSE <<>>)
    \o <<Step("call", "Ramp", rc.current)>>

\* variant: a tick outside the PV modes clears the timer
timerAfterCleared(pv, c, timer) == IF pv THEN c.pvTimer ELSE 0

\* lp.pvTimer after the mode dispatch: only maxCurrent writes it
timerAfter(pv, c, timer) == IF pv THEN c.pvTimer ELSE timer

\* ------------------------------------------------------------- actions
\* the load point as NewLoadPointFromConfig returns it: fake tells whether
\* the synthetic charge meter was installed, P and cfg are the decoded
\* configuration
InitState(fake, P, cfg) ==
    /\ prepared = FALSE
    /\ fakeMeter = fake
    /\ subs = InitSubs(fake)
    /\ Phases = P
    /\ Enable = cfg.Enable
    /\ Disable = cfg.Disable
    /\ status = StatusNone
    /\ charging = FALSE
    /\ connectedTime = 0
    /\ pvTimer = 0
    /\ meterPower = 0
    /\ chargePower = 0
    /\ enabled = FALSE
    /\ handlerTarget = 0
    /\ now = 0
    /\ prevStatus = StatusNone
    /\ read = "none"
    /\ mode = ModeOff
    /\ sitePower = 0
    /\ bus = <<>>
    /\ pushed = <<>>
    /\ mc = NoCall
    /\ ramp = NoCall
    /\ det = NoCall
    /\ steps = <<>>
    /\ aboveSince = 0
    /\ disSince = 0
    /\ seqDrop = FALSE
    /\ condSince = 0

\* a charger without meter capability and no configured charge meter
Init == \E P \in PhaseCounts, cfg \in Configs : InitState(TRUE, P, cfg)

\* Prepare(uiChan, pushChan); handler.Prepare() takes over the charger's
\* enabled state
Prepare ==
    /\ ~prepared
    /\ prepared' = TRUE
    /\ subs' = PrepareSubs(subs)
    /\ enabled' \in BOOLEAN
    /\ handlerTarget' = MinCurrent
    /\ UNCHANGED <<Phases, Enable, Disable, status, charging, connectedTime, pvTimer,
                   fakeMeter, meterPower, chargePower, now, prevStatus, read, mode,
                   sitePower, bus, pushed, mc, ramp, det, steps,
                   aboveSince, disSince, seqDrop, condSince>>

\* Update(m, sp) called at clock reading t, with the outcomes mr of the meter
\* read, rd of the status read, pr of the phase-current read and out of the
\* actuation.  handler.SyncEnabled() finds the charger as Ramp left it and
\* changes nothing.
Tick(t, m, sp, mr, rd, pr, out) ==
    LET failed == rd = "err"
        aborted == abortOnError(failed)
        changed == ~failed /\ rd # status
        st == IF changed THEN rd ELSE status
        chg == IF changed THEN chargingOf(rd) ELSE charging
        pv == m \in {ModeMinPV, ModePV}
        \* updateChargeMeter
        cp == meterValue(mr, chargePower)
        S0 == [meterPower |-> meterPower, connectedTime |-> connectedTime,
               pushed |-> <<>>, steps |-> meterSteps(mr)]
        ctx0 == [enabled |-> enabled, status |-> status, Phases |-> Phases, now |-> t]
        \* bus.Publish(evChargeCurrent, ...); bus.Publish(evChargePower, ...)
        ev0 == <<evChargeCurrent, evChargePower>>
        \* updateChargeStatus
        ev1 == IF changed THEN statusEvents(status, rd) ELSE <<>>
        \* detectPhases
        P == IF chg THEN detectPhases(pr, Phases) ELSE Phases
    IN  \E Sa \in {Publish(<<evChargeCurrent>>, handlerTarget, S0, ctx0, subs)} :
        \E Sb \in {Publish(<<evChargePower>>, cp, Sa, ctx0, subs)} :
        \* publishChargeProgress, publishSoC, then the status read
        \E S1 \in {[Sb EXCEPT !.steps = @ \o progressSteps \o socSteps(status)
                                          \o <<Step("read", "status", Bit(~failed))>>]} :
        \E S2 \in {Publish(ev1, handlerTarget, S1, [ctx0 EXCEPT !.status = st], subs)} :
        \E c \in {IF pv /\ ~aborted
                  THEN maxCurrent(m, sp, st, enabled, handlerTarget, P, pvTimer, t,
                                  Disable, Enable)
                  ELSE NoCall} :
        \E rc \in {rampCall(m, st, IF pv /\ ~aborted THEN c.ret ELSE 0)} :
        \E h \in {Ramp(rc.current, rc.force, out, enabled, handlerTarget)} :
        /\ now' = t
        /\ chargePower' = cp
        /\ prevStatus' = status
        /\ read' = rd
        /\ mode' = m
        /\ sitePower' = sp
        /\ aboveSince' = IF sp >= Disable.Threshold
                         THEN (IF aboveSince = 0 THEN t ELSE aboveSince) ELSE 0
        /\ IF aborted
           THEN /\ meterPower' = S1.meterPower
                /\ connectedTime' = S1.connectedTime
                /\ pushed' = S1.pushed
                /\ steps' = S1.steps
                /\ bus' = ev0
                /\ mc' = NoCall
                /\ ramp' = NoCall
                /\ det' = NoCall
                /\ disSince' = 0
                /\ seqDrop' = FALSE
                /\ condSince' = 0
                /\ UNCHANGED <<status, charging, Phases, pvTimer, enabled, handlerTarget>>
           ELSE /\ meterPower' = S2.meterPower
                /\ connectedTime' = S2.connectedTime
                /\ pushed' = S2.pushed
                /\ steps' = S2.steps \o dispatchSteps(st, chg, pr, Phases, rc)
                /\ bus' = ev0 \o ev1
                /\ status' = st
                /\ charging' = chg
                /\ Phases' = P
                /\ det' = IF chg THEN [called |-> TRUE, ok |-> pr.ok, n |-> activePhases(pr.i)]
                                 ELSE NoCall
                /\ mc' = c
                /\ pvTimer' = timerAfter(pv, c, pvTimer)
                /\ ramp' = rc
                /\ enabled' = h.enabled
                /\ handlerTarget' = h.target
                /\ LET disTick == m = ModePV /\ st = StatusC /\ enabled
                                  /\ c.target < MinCurrent
                       enTick == m = ModePV /\ connected(st) /\ ~enabled
                                 /\ enableCondition(c.target, sp, Enable)
                   IN  /\ disSince' = IF disTick /\ sp >= Disable.Threshold
                                      THEN (IF disSince = 0 THEN t ELSE disSince) ELSE 0
                       /\ seqDrop' = (disTick /\ (seqDrop \/ sp < Disable.Threshold))
                       /\ condSince' = IF enTick
                                       THEN (IF condSince = 0 THEN t ELSE condSince) ELSE 0
        /\ UNCHANGED <<prepared, subs, Enable, Disable, fakeMeter>>

\* one tick of the scheduler, which calls Update at a fixed cadence of one
\* time unit.  The synthetic meter's read never fails and returns the power
\* it holds; it has no MeterCurrent capability.  The phase currents are read
\* only while charging, the guard duration matters only to an unforced Ramp.
Update ==
    /\ prepared
    /\ now + 1 <= MaxTime
    /\ \E m \in Modes, sp \in (IF fakeMeter THEN SitePowers ELSE MeterSitePowers),
          rd \in StatusReads :
       \E mr \in (IF fakeMeter THEN {[ok |-> TRUE, value |-> meterPower]} ELSE MeterReads),
          pr \in (IF ~fakeMeter /\ rd = StatusC THEN PhaseReads ELSE {NoPhaseRead}),
          out \in (IF rd # "err" /\ m \in {ModeMinPV, ModePV}
                   THEN RampOutcomes ELSE {"ok"}) :
            Tick(now + 1, m, sp, mr, rd, pr, out)

Next == Prepare \/ Update

Spec == Init /\ [][Next]_vars

\* a load point with a configured charge meter that has the MeterCurrent
\* capability, set up for three phases
InitMeter == \E P \in MeterPhaseCounts, cfg \in MeterConfigs : InitState(FALSE, P, cfg)

SpecMeter == InitMeter /\ [][Next]_vars

\* ------------------------------------------------------------- claims
Count(seq, x) == Cardinality({i \in DOMAIN seq : seq[i] = x})

Occurs(seq, x) == \E i \in DOMAIN seq : seq[i] = x

\* a tick has run and its status read succeeded
ReadOk == read \in {StatusA, StatusB, StatusC}

\* C1: at the end of every tick, whatever the polled statuses and failed
\* reads before it, charging is true iff the cached status is Charging (C).
C1_ChargingIffStatusC == charging = (status = StatusC)

C1_Witness == ReadOk /\ prevStatus = StatusC /\ status = StatusB /\ ~charging

\* C2: after Prepare, a tick sends "connect" exactly once when the cached
\* status changes from A to a non-A status and "disconnect" exactly once when
\* it changes from a non-A status to A, and sends neither on the first
\* observed status or when the polled status equals the cached one.
C2_ConnectDisconnectNotified ==
    (prepared /\ read # "none") =>
        /\ Count(pushed, evVehicleConnect) =
             (IF ReadOk /\ prevStatus = StatusA /\ status # StatusA THEN 1 ELSE 0)
        /\ Count(pushed, evVehicleDisconnect) =
             (IF ReadOk /\ prevStatus \in {StatusB, StatusC} /\ status = StatusA
              THEN 1 ELSE 0)

\* C3: the first successful status read, which leaves None, publishes no
\* vehicle-disconnected bus event, whichever status is read.
C3_NoDisconnectLeavingNone ==
    (ReadOk /\ prevStatus = StatusNone) => ~Occurs(bus, evVehicleDisconnect)

\* C4: on a status change, charge-started is published exactly when the new
\* status is C and charge-stopped exactly when the previous status was C.
C4_StartStopOnChargingEdges ==
    (ReadOk /\ status # prevStatus) =>
        /\ Occurs(bus, evChargeStart) <=> status = StatusC
        /\ Occurs(bus, evChargeStop) <=> prevStatus = StatusC

\* C5: the first observed status (cached status None before the read)
\* publishes no charge-stopped event and sends no "stop" notification.
C5_NoStopOnFirstStatus ==
    (ReadOk /\ prevStatus = StatusNone) =>
        ~Occurs(bus, evChargeStop) /\ ~Occurs(pushed, evChargeStop)

C5_Witness == ReadOk /\ prevStatus = StatusNone /\ status \in {StatusA, StatusB}
              /\ Occurs(bus, evChargeCurrent)

\* the last tick ran maxCurrent in PV mode on a charging vehicle with the
\* charger enabled and targetCurrent < MinCurrent (a tick of the disable
\* sequence)
DisableTick == mc.called /\ mode = ModePV /\ status = StatusC /\ mc.enabled
               /\ mc.target < MinCurrent

\* C6: on a tick of the disable sequence at which sitePower has been at or
\* above Disable.Threshold for a run of ticks lasting less than
\* Disable.Delay, maxCurrent returns MinCurrent, whatever came before.
C6_EnabledWithinDisableDelay ==
    (DisableTick /\ aboveSince # 0 /\ now - aboveSince < Disable.Delay) =>
        mc.ret = MinCurrent

\* C7: once sitePower has stayed at or above Disable.Threshold for at least
\* Disable.Delay over consecutive ticks of the disable sequence, maxCurrent
\* returns 0.
C7_DisabledAfterDisableDelay ==
    (disSince # 0 /\ now - disSince >= Disable.Delay) => mc.ret = 0

C7_Witness == /\ disSince # 0
              /\ Disable.Delay > 0
              /\ now - disSince >= Disable.Delay
              /\ mc.ret = 0

\* C8: in a disable sequence, a tick below Disable.Threshold returns
\* MinCurrent and resets the dwell: after it maxCurrent returns 0 only once
\* sitePower has again been at or above the threshold for a full
\* Disable.Delay, measured from the tick at which it came back above.
C8_DropResetsDisableDwell ==
    DisableTick =>
        /\ sitePower < Disable.Threshold => mc.ret = MinCurrent
        /\ (seqDrop /\ mc.ret = 0) =>
              (aboveSince # 0 /\ now - aboveSince >= Disable.Delay)

\* C9: in PV mode with a vehicle connected (B or C) and the charger disabled,
\* maxCurrent returns MinCurrent if the enable condition has held over
\* consecutive ticks for at least Enable.Delay, and 0 otherwise.
C9_EnableAfterEnableDelay ==
    (mc.called /\ mode = ModePV /\ connected(status) /\ ~mc.enabled) =>
        mc.ret = (IF condSince # 0 /\ now - condSince >= Enable.Delay
                  THEN MinCurrent ELSE 0)

\* C10: the current maxCurrent returns in PV or MinPV mode lies in
\* [0, MaxCurrent], and in MinPV mode it is at least MinCurrent.
C10_ReturnWithinLimits ==
    mc.called =>
        /\ 0 <= mc.ret /\ mc.ret <= MaxCurrent
        /\ mode = ModeMinPV => mc.ret >= MinCurrent

C10_Witness == mc.called /\ mode = ModeMinPV /\ mc.target < MinCurrent
               /\ mc.ret = MinCurrent

\* C11: in mode PV or MinPV, on a tick whose status read succeeds and that
\* leaves the vehicle not connected (status neither B nor C), the current
\* passed to Ramp is at most MinCurrent, whatever maxCurrent computed.
C11_NotConnectedAtMostMinCurrent ==
    (ReadOk /\ mode \in {ModeMinPV, ModePV} /\ ~connected(status))
        => (ramp.called /\ ramp.current <= MinCurrent)

\* maxCurrent computed more than MinCurrent for a vehicle that is not connected
C11_Witness ==
    /\ ReadOk /\ mode = ModeMinPV /\ status = StatusA
    /\ mc.ret > MinCurrent /\ ramp.current = MinCurrent

\* C12: Phases never increases.  Every tick, and so every call of
\* detectPhases, leaves Phases at most what it was, and a call in which no
\* phase carries minActiveCurrent or whose read fails leaves it unchanged.
C12_PhasesNeverIncrease ==
    [][/\ Phases' <= Phases
       /\ (det'.called /\ (~det'.ok \/ det'.n = 0)) => Phases' = Phases]_vars

\* more phases were detected than the setting, which stayed
C12_Witness == det.called /\ det.ok /\ det.n > Phases /\ Phases < 3

\* the tick recorded in seq did something of kind k named n
HasStep(seq, k, n) == \E i \in DOMAIN seq : seq[i].k = k /\ seq[i].n = n

\* every attempt of the tick's meter read failed
MeterFailed(seq) == seq # <<>> /\ seq[1] = Step("read", "chargeMeter", 0)

\* C13: when every attempt of the status read fails, Update returns without
\* calling Ramp or SyncEnabled and without publishing "connected" or
\* "charging"; the cached status, charging, Phases and pvTimer are what they
\* were before the tick.
C13_FailedStatusReadAborts ==
    [][(now' # now /\ read' = "err")
          => /\ ramp' = NoCall
             /\ ~HasStep(steps', "call", "Ramp")
             /\ ~HasStep(steps', "call", "SyncEnabled")
             /\ ~HasStep(steps', "ui", "connected")
             /\ ~HasStep(steps', "ui", "charging")
             /\ status' = status /\ charging' = charging
             /\ Phases' = Phases /\ pvTimer' = pvTimer]_vars

\* the read failed while charging in mode PV with a running timer
C13_Witness ==
    /\ read = "err" /\ status = StatusC /\ mode = ModePV /\ pvTimer # 0
    /\ ~HasStep(steps, "call", "Ramp")

\* C14: when every attempt of the meter read fails, chargePower keeps its
\* value and no "chargePower" metric is published; the tick goes on with the
\* charge-power-changed event carrying the stale value, the status read and,
\* when that succeeds, the mode dispatch.
C14_FailedMeterReadKeepsPower ==
    [][(now' # now /\ MeterFailed(steps'))
          => /\ chargePower' = chargePower
             /\ ~HasStep(steps', "ui", "chargePower")
             /\ \E i \in DOMAIN steps' : steps'[i] = Step("bus", evChargePower, chargePower)
             /\ HasStep(steps', "read", "status")
             /\ read' # "err" => HasStep(steps', "call", "Ramp")]_vars

\* the read failed with a reading of an earlier tick kept, and the tick went on
C14_Witness ==
    MeterFailed(steps) /\ chargePower > 0 /\ ReadOk /\ HasStep(steps, "call", "Ramp")

\* C15: on every tick whose status read succeeds, mode Off calls Ramp(0) with
\* force, whatever the connection state, and mode Now calls Ramp with force
\* and MinCurrent if the status is neither B nor C, MaxCurrent otherwise.
C15_OffAndNowForceRamp ==
    ReadOk =>
        /\ mode = ModeOff => ramp = [called |-> TRUE, current |-> 0, force |-> TRUE]
        /\ mode = ModeNow =>
              ramp = [called |-> TRUE, force |-> TRUE,
                      current |-> IF status \in {StatusB, StatusC}
                                  THEN MaxCurrent ELSE MinCurrent]

\* mode Now with nothing connected asks for MinCurrent
C15_Witness ==
    ReadOk /\ mode = ModeNow /\ status = StatusA /\ ramp.current = MinCurrent /\ ramp.force

\* the last tick ran maxCurrent in PV mode on a charging vehicle and found
\* the condition of the disable or of the enable sequence
InSequence ==
    /\ mc.called /\ mode = ModePV /\ status = StatusC
    /\ \/ mc.enabled /\ mc.target < MinCurrent /\ sitePower >= Disable.Threshold
       \/ ~mc.enabled /\ enableCondition(mc.target, sitePower, Enable)

\* C16: at the end of every tick that ran maxCurrent in PV mode, pvTimer is
\* the zero value exactly when no enable or disable sequence is in progress;
\* when the condition has reversed the timer is back at the zero value.
C16_TimerZeroIffNoSequence ==
    (mc.called /\ mode = ModePV) => (pvTimer = 0 <=> ~InSequence)

\* the steps of kind k named n in the record of the last tick
StepsAt(k, n) == {i \in DOMAIN steps : steps[i].k = k /\ steps[i].n = n}

\* every step of A comes before every step of B
Before(A, B) == \A i \in A, j \in B : i < j

\* C17: within a tick the steps come in this order: meter read, the
\* charge-current-changed then the charge-power-changed event, progress and
\* SoC publication (from the status of the tick before), status read with
\* its transition events, "connected" and "charging", SyncEnabled (exactly
\* when the status is not A), phase detection (only when charging), then
\* exactly one Ramp call; no Ramp without a successful status read before it.
C17_StepOrder ==
    steps # <<>> =>
        LET sr == StepsAt("read", "status")
            pre(A) == {i \in A : Before({i}, sr)}
            post(A) == {i \in A : Before(sr, {i})}
            busAll == {i \in DOMAIN steps : steps[i].k = "bus"}
            current == pre(StepsAt("bus", evChargeCurrent))
            power == StepsAt("bus", evChargePower)
            progress == pre(StepsAt("ui", "chargedEnergy") \cup StepsAt("ui", "chargeDuration"))
            soc == StepsAt("call", "publishSoC")
            conn == StepsAt("ui", "connected")
            chrg == StepsAt("ui", "charging")
            sync == StepsAt("call", "SyncEnabled")
            phases == StepsAt("call", "detectPhases")
            rmp == StepsAt("call", "Ramp")
            One(A) == Cardinality(A) = 1
        IN  /\ StepsAt("read", "chargeMeter") = {1}
            /\ One(sr) /\ One(current) /\ One(power) /\ One(soc)
            /\ Cardinality(progress) = 2
            /\ Before({1}, current) /\ Before(current, power) /\ Before(power, progress)
            /\ Before(progress, soc) /\ Before(soc, sr)
            /\ \A i \in soc : steps[i].v = Bit(connected(prevStatus))
            /\ Before(post(busAll), conn)
            /\ IF read = "err"
               THEN sr = {Len(steps)}
               ELSE /\ One(conn) /\ One(chrg) /\ One(rmp)
                    /\ Before(sr, conn) /\ Before(conn, chrg) /\ Before(chrg, sync)
                    /\ Before(chrg, phases) /\ Before(sync, phases)
                    /\ Cardinality(sync) = (IF status # StatusA THEN 1 ELSE 0)
                    /\ Cardinality(phases) = (IF charging THEN 1 ELSE 0)
                    /\ rmp = {Len(steps)}

\* a tick that took every step: a vehicle starts charging
C17_Witness ==
    /\ ReadOk /\ prevStatus = StatusB /\ status = StatusC
    /\ StepsAt("call", "SyncEnabled") # {} /\ StepsAt("call", "detectPhases") # {}
    /\ StepsAt("call", "Ramp") = {Len(steps)}

\* C18: with the synthetic meter, the charge-current-changed events of a
\* tick leave its power at 0 if the charger is disabled or the status (the
\* new one after a change) is not C, and at current x Phases x Voltage
\* otherwise; a charge-stopped event leaves it at 0; after a tick in which
\* the status left C it reads 0.
C18_SyntheticMeterPower ==
    [][(now' # now /\ fakeMeter)
          => /\ meterPower' = (IF enabled /\ status' = StatusC
                               THEN handlerTarget * Phases * Voltage ELSE 0)
             /\ Occurs(bus', evChargeStop) => meterPower' = 0
             /\ (status = StatusC /\ status' # StatusC) => meterPower' = 0]_vars

\* the meter held a positive power when the tick began, and the status left C
C18_Witness ==
    /\ fakeMeter /\ ReadOk /\ prevStatus = StatusC /\ status = StatusB
    /\ chargePower > 0 /\ meterPower = 0

\* C19: Phases stays at least 1 in a load point constructed with Phases >= 1,
\* so that maxCurrent never divides by zero.
C19_PhasesAtLeastOne == Phases >= 1

\* a read without any active phase after the setting came down to one phase
C19_Witness == det.called /\ det.ok /\ det.n = 0 /\ Phases = 1 /\ mc.called

\* C20: only maxCurrent writes pvTimer.  A tick in mode Off or Now, a tick
\* whose status read fails and a MinPV tick with targetCurrent < MinCurrent
\* leave it unchanged; a MinPV tick with targetCurrent >= MinCurrent sets it
\* to the zero value.
C20_TimerFrame ==
    [][now' # now
          => /\ (\/ read' = "err"
                 \/ mode' \in {ModeOff, ModeNow}
                 \/ mode' = ModeMinPV /\ mc'.target < MinCurrent) => pvTimer' = pvTimer
             /\ (read' # "err" /\ mode' = ModeMinPV /\ mc'.target >= MinCurrent)
                    => pvTimer' = 0]_vars

\* a timer started in PV mode at an earlier tick is still there after a tick
\* in mode Off or Now
C20_Witness ==
    ReadOk /\ mode \in {ModeOff, ModeNow} /\ pvTimer # 0 /\ pvTimer < now

====
